---- MODULE Spec2Model ----
(***************************************************************************)
(* Model of the netlist -> schematic reconstruction extension              *)
(* (src/src/index.ts): importNetlist, selectAndReadNetlistFile,            *)
(* parseNetlistData, rebuildSchematic, findDeviceInfo,                     *)
(* modifyComponentProperties, calculateComponentSize, placeComponent,      *)
(* createNetWiresForSingleComponent and createNetWiresForComponents, run   *)
(* against a host (the eda.* API) whose answers are drawn from small sets. *)
(***************************************************************************)
EXTENDS Integers, Sequences, FiniteSets, TLC

VARIABLES
    pc,                 \* position of the importNetlist run
    fileContent,        \* text returned by selectAndReadNetlistFile (decoded form)
    netlistData,        \* the parsed document: sequence of [key, val] in document order
    libUuid,            \* rebuildSchematic: library handle
    idx,                \* rebuildSchematic: index of the loop over Object.entries
    currentX, currentY, \* rebuildSchematic: grid cursor
    componentCount,     \* rebuildSchematic: number of advanced slots
    components,         \* rebuildSchematic: placed ComponentLayout list
    notFoundComponents, \* rebuildSchematic: failed designators
    layoutInfo,         \* rebuildSchematic: result of the last placeComponent
    lastResolve,        \* record of the last findDeviceInfo call
    instances,          \* host: symbol instances of the schematic
    wires,              \* host: wires of the schematic
    toasts,             \* host: toast notifications shown, in order
    calls,              \* host: API calls received, in order
    attempts,           \* history: (componentId, x, y) of every placeComponent call
    summary,            \* rebuildSchematic: the counts of the final log line
    faults              \* number of host calls that threw or returned nothing

vars == <<pc, fileContent, netlistData, libUuid, idx, currentX, currentY,
          componentCount, components, notFoundComponents, layoutInfo,
          lastResolve, instances, wires, toasts, calls, attempts, summary,
          faults>>

----------------------------------------------------------------------------
(* Bounds of the model *)

\* longest netlist whose records are drawn freely
MaxComponents == 2
\* number of components beyond one full row in the long netlists
MaxOverRow == 1
\* host calls of the component loop that may throw or return nothing in a run
MaxFaults == 1

(* Program constants *)
gridSize == 100
maxComponentsPerRow == 15
wireLength == 30
StartX == 20
StartY == 20

----------------------------------------------------------------------------
(* Values *)

\* a property that is absent from a JSON object reads as undefined
Undefined == "~undefined"

\* JavaScript truthiness of a string-or-undefined value
Truthy(s) == s # "" /\ s # Undefined

Range(s) == {s[i] : i \in DOMAIN s}

\* String.prototype.trim on the strings of the model
Trim(s) ==
    CASE s = "  " -> ""
      [] s = " 10k " -> "10k"
      [] OTHER -> s

\* String.prototype.toUpperCase, character by character; a string is a
\* sequence of one-character strings
UpperChar(c) ==
    CASE c = "v" -> "V"
      [] c = "c" -> "C"
      [] c = "g" -> "G"
      [] c = "n" -> "N"
      [] c = "d" -> "D"
      [] c = "a" -> "A"
      [] c = "l" -> "L"
      [] c = "u" -> "U"
      [] c = "e" -> "E"
      [] c = "f" -> "F"
      [] OTHER -> c

\* a label that is the net name as written
toUpperCaseUnchanged(s) == s

toUpperCase(s) == [i \in DOMAIN s |-> UpperChar(s[i])]

\* keys that are canonical array indices are enumerated first, ascending
IntegerKeys == <<"0", "1", "2", "3">>
IsIntegerKey(k) == \E i \in DOMAIN IntegerKeys : IntegerKeys[i] = k
KeyValue(k) == CHOOSE i \in DOMAIN IntegerKeys : IntegerKeys[i] = k

RECURSIVE SortByKey(_, _)
SortByKey(s, I) ==
    IF I = {} THEN <<>>
    ELSE LET m == CHOOSE i \in I :
                    \A j \in I : KeyValue(s[i].key) <= KeyValue(s[j].key)
         IN  <<s[m]>> \o SortByKey(s, I \ {m})

IsStringKeyEntry(e) == ~IsIntegerKey(e.key)

\* Object.entries of an object whose properties were created in the order s
ObjectEntries(s) ==
    SortByKey(s, {i \in DOMAIN s : IsIntegerKey(s[i].key)})
        \o SelectSeq(s, IsStringKeyEntry)

----------------------------------------------------------------------------
(* The host's device library and symbols *)

Device(uuid, name) == [uuid |-> uuid, name |-> name]
NoDevice == Device("", "")

D0 == Device("D0", "testpoint")
D1 == Device("D1", "res")
D2 == Device("D2", "cap")
D3 == Device("D3", "conn")
D4 == Device("D4", "diode")

\* eda.lib_Device.getByLcscIds: the list the library holds for a supplier part
LcscLibrary(part) ==
    CASE part = "C1" -> <<D1>>
      [] part = "C2" -> <<D2, D1>>
      [] part = "C3" -> <<D3>>
      [] part = "C0" -> <<D0>>
      [] part = "C4" -> <<D4>>
      [] OTHER -> <<>>

\* eda.lib_Device.search: the list the library holds for a device name
SearchLibrary(name) ==
    CASE name = "res" -> <<D1, D2>>
      [] name = "cap" -> <<D2>>
      [] OTHER -> <<>>

Pin(n, x, y) == [pinNumber |-> n, x |-> x, y |-> y]

\* eda.sch_PrimitiveComponent.getAllPinsByPrimitiveId: the pins of the symbol
\* of device uuid instantiated at (x, y), in absolute coordinates
HostPins(uuid, x, y) ==
    CASE uuid = "D1" -> <<Pin("1", x - 10, y), Pin("2", x + 10, y)>>
      [] uuid = "D2" -> <<Pin("1", x, y), Pin("2", x + 5, y + 10)>>
      [] uuid = "D3" -> <<Pin("A", x - 40, y), Pin("1", x + 20, y - 10)>>
      [] uuid = "D4" -> <<Pin("1", x + 10, y + 10), Pin("2", x + 30, y + 10)>>
      [] OTHER -> <<>>

----------------------------------------------------------------------------
(* Netlist documents *)

Entry(k, v) == [key |-> k, val |-> v]

\* a NetlistComponent; hasProps / hasPins are FALSE when the field is absent
Rec(des, part, name, value, hasPins, pins) ==
    [hasProps |-> TRUE, Designator |-> des, SupplierPart |-> part,
     device_name |-> name, value |-> value, hasPins |-> hasPins, pins |-> pins]

NoPropsRec(pins) ==
    [hasProps |-> FALSE, Designator |-> Undefined, SupplierPart |-> Undefined,
     device_name |-> Undefined, value |-> Undefined, hasPins |-> TRUE, pins |-> pins]

VCC == <<"V", "C", "C">>
vcc == <<"v", "c", "c">>
Vcc == <<"V", "c", "c">>
GND == <<"G", "N", "D">>
gnd == <<"g", "n", "d">>
N1 == <<"n", "1">>
valueOf == <<"v", "a", "l", "u", "e", "O", "f">>

StdPins == <<Entry("1", VCC), Entry("2", GND)>>

DesignatorOf(i) == "R" \o ToString(i)
IdOf(i) == "U" \o ToString(i)

\* the ordinary record of the i-th component: found by supplier part
StdRec(i) == Rec(DesignatorOf(i), "C1", "res", "10k", TRUE, StdPins)
\* a record that no lookup stage resolves
LostRec(i) == Rec(DesignatorOf(i), "C9", "zzz", "10k", TRUE, StdPins)

Designators(i) == {DesignatorOf(i), "", "  ", Undefined}
Parts == {"", Undefined, "C2", "C9"}
Names == {"", Undefined, "res", "zzz"}
Values == {"", " 10k ", "  ", Undefined}
PinMaps ==
    { <<>>,
      <<Entry("1", vcc), Entry("2", Vcc)>>,
      <<Entry("2", gnd), Entry("1", N1)>>,
      <<Entry("1", GND), Entry("3", VCC), Entry("A", vcc)>>,
      <<Entry("1", valueOf), Entry("2", gnd)>> }

\* records that differ from the ordinary one in one respect
OddRecs(i) ==
    {Rec(d, "C1", "res", "10k", TRUE, StdPins) : d \in Designators(i)}
    \cup {Rec(d, "C9", "", "10k", TRUE, StdPins) : d \in Designators(i)}
    \cup {Rec(DesignatorOf(i), p, n, "10k", TRUE, StdPins) : p \in Parts, n \in Names}
    \cup {Rec(DesignatorOf(i), "C1", "res", v, TRUE, StdPins) : v \in Values}
    \cup {Rec("  ", "C1", "res", "", TRUE, StdPins)}
    \cup {Rec(DesignatorOf(i), p, "res", "10k", TRUE, m) : p \in {"C2", "C3"}, m \in PinMaps}
    \cup {Rec(DesignatorOf(i), p, "res", "10k", TRUE, StdPins) : p \in {"C0", "C4"}}
    \cup {Rec(DesignatorOf(i), "C1", "res", "10k", FALSE, <<>>), NoPropsRec(StdPins)}

----------------------------------------------------------------------------
(* Host answers and notifications *)

\* a host call made on behalf of component comp, and how the host answered
Call(op, comp, args, answer) ==
    [op |-> op, comp |-> comp, args |-> args, answer |-> answer]

\* eda.sys_Message.showToastMessage(message, severity)
Toast(sev, what, names) == [sev |-> sev, what |-> what, names |-> names]

\* a lookup answers with the library's list, with something that is no list,
\* or throws
LookupAnswers == {"list", "nothing", "throw"}
\* create answers with a primitive, with nothing, or throws
CreateAnswers == {"primitive", "nothing", "throw"}
ModifyAnswers == {"done", "throw"}
\* the pin query answers with the pins, with nothing, or throws
PinsAnswers == {"pins", "nothing", "throw"}

Fault(answer) == IF answer \in {"nothing", "throw"} THEN 1 ELSE 0

----------------------------------------------------------------------------
(* findDeviceInfo *)

\* devices && Array.isArray(devices) && devices.length > 0
NonEmptyList(answer, list) == answer = "list" /\ Len(list) > 0

\* findDeviceInfo without the return of line 218: the name search runs even
\* after the supplier part matched, and its result is preferred
findDeviceInfoFallThrough(id, component, r1, r2) ==
    LET part == component.SupplierPart
        name == component.device_name
        byPart == Truthy(part)
        list1 == LcscLibrary(part)
        hit1 == byPart /\ NonEmptyList(r1, list1)
        threw1 == byPart /\ r1 = "throw"
        byName == ~threw1 /\ Truthy(name)
        list2 == SearchLibrary(name)
        hit2 == byName /\ (NonEmptyList(r2, list2) \/ (hit1 /\ Len(list2) > 0))
        threw2 == byName /\ r2 = "throw"
    IN  [comp |-> id,
         threw |-> threw1 \/ threw2,
         device |-> IF hit2 THEN list2[1] ELSE IF hit1 THEN list1[1] ELSE NoDevice,
         byPart |-> byPart,
         byName |-> byName,
         calls |-> (IF byPart THEN <<Call("getByLcscIds", id, <<part>>, r1)>> ELSE <<>>)
                   \o (IF byName
                       THEN <<Call("search", id, <<name>>, IF hit1 THEN "list" ELSE r2)>>
                       ELSE <<>>),
         faults |-> (IF byPart THEN Fault(r1) ELSE 0)
                    + (IF byName THEN Fault(r2) ELSE 0)]

\* findDeviceInfo with the name search in an else branch: it runs only when
\* the supplier part is empty
findDeviceInfoElseOnly(id, component, r1, r2) ==
    LET part == component.SupplierPart
        name == component.device_name
        byPart == Truthy(part)
        list1 == LcscLibrary(part)
        hit1 == byPart /\ NonEmptyList(r1, list1)
        threw1 == byPart /\ r1 = "throw"
        byName == ~byPart /\ Truthy(name)
        list2 == SearchLibrary(name)
        hit2 == byName /\ NonEmptyList(r2, list2)
        threw2 == byName /\ r2 = "throw"
    IN  [comp |-> id,
         threw |-> threw1 \/ threw2,
         device |-> IF hit1 THEN list1[1] ELSE IF hit2 THEN list2[1] ELSE NoDevice,
         byPart |-> byPart,
         byName |-> byName,
         calls |-> (IF byPart THEN <<Call("getByLcscIds", id, <<part>>, r1)>> ELSE <<>>)
                   \o (IF byName THEN <<Call("search", id, <<name>>, r2)>> ELSE <<>>),
         faults |-> (IF byPart THEN Fault(r1) ELSE 0)
                    + (IF byName THEN Fault(r2) ELSE 0)]

\* the outcome of findDeviceInfo(component) when getByLcscIds answers r1 and
\* search answers r2: the device returned (NoDevice for null), whether the
\* call threw, the host calls made and the faults among them
findDeviceInfo(id, component, r1, r2) ==
    LET part == component.SupplierPart
        name == component.device_name
        byPart == Truthy(part)
        list1 == LcscLibrary(part)
        hit1 == byPart /\ NonEmptyList(r1, list1)
        threw1 == byPart /\ r1 = "throw"
        byName == ~hit1 /\ ~threw1 /\ Truthy(name)
        list2 == SearchLibrary(name)
        hit2 == byName /\ NonEmptyList(r2, list2)
        threw2 == byName /\ r2 = "throw"
    IN  [comp |-> id,
         threw |-> threw1 \/ threw2,
         device |-> IF hit1 THEN list1[1] ELSE IF hit2 THEN list2[1] ELSE NoDevice,
         byPart |-> byPart,
         byName |-> byName,
         calls |-> (IF byPart THEN <<Call("getByLcscIds", id, <<part>>, r1)>> ELSE <<>>)
                   \o (IF byName THEN <<Call("search", id, <<name>>, r2)>> ELSE <<>>),
         faults |-> (IF byPart THEN Fault(r1) ELSE 0)
                    + (IF byName THEN Fault(r2) ELSE 0)]

----------------------------------------------------------------------------
(* modifyComponentProperties *)

\* modifyComponentProperties without the trim tests: every truthy property is
\* handed over
modifyPropsNoTrim(component) ==
    [designator |-> IF Truthy(component.Designator)
                    THEN component.Designator ELSE Undefined,
     name |-> IF Truthy(component.value) THEN component.value ELSE Undefined]

\* the properties handed to eda.sch_PrimitiveComponent.modify; Undefined
\* marks a property that is not set
modifyProps(component) ==
    [designator |-> IF Truthy(component.Designator) /\ Trim(component.Designator) # ""
                    THEN component.Designator ELSE Undefined,
     name |-> IF Truthy(component.value) /\ Trim(component.value) # ""
              THEN component.value ELSE Undefined]

\* Object.keys(modifyProps).length > 0
ModifyCalled(component) ==
    modifyProps(component).designator # Undefined
        \/ modifyProps(component).name # Undefined

----------------------------------------------------------------------------
(* calculateComponentSize *)

Min(a, b) == IF a <= b THEN a ELSE b
Max(a, b) == IF a >= b THEN a ELSE b

RECURSIVE Extent(_, _)
\* the loop of calculateComponentSize over pins, from the box acc
Extent(pins, acc) ==
    IF pins = <<>> THEN acc
    ELSE Extent(Tail(pins),
                [minX |-> Min(acc.minX, Head(pins).x),
                 maxX |-> Max(acc.maxX, Head(pins).x),
                 minY |-> Min(acc.minY, Head(pins).y),
                 maxY |-> Max(acc.maxY, Head(pins).y)])

\* the box of the pins alone: the placement origin is left out when there are
\* pins
calculateComponentSizeOfPins(pins, x, y) ==
    LET first == IF pins = <<>> THEN [x |-> x, y |-> y] ELSE Head(pins)
        box == Extent(pins, [minX |-> first.x, maxX |-> first.x,
                             minY |-> first.y, maxY |-> first.y])
    IN  [width |-> box.maxX - box.minX, height |-> box.maxY - box.minY]

\* pins is <<>> when the host returned no pin list
calculateComponentSize(pins, x, y) ==
    LET box == Extent(pins, [minX |-> x, maxX |-> x, minY |-> y, maxY |-> y])
    IN  [width |-> box.maxX - box.minX, height |-> box.maxY - box.minY]

----------------------------------------------------------------------------
(* placeComponent *)

Layout(primitiveId, componentId, x, y, size, pins) ==
    [primitiveId |-> primitiveId, componentId |-> componentId, x |-> x, y |-> y,
     width |-> size.width, height |-> size.height, pins |-> pins]

NoLayout == Layout(0, "", 0, 0, [width |-> 0, height |-> 0], <<>>)

\* a symbol instance of the host schematic; designator and name are Undefined
\* until a modify call sets them
Instance(primitiveId, uuid, x, y, props) ==
    [primitiveId |-> primitiveId, uuid |-> uuid, x |-> x, y |-> y,
     designator |-> props.designator, name |-> props.name]

NoProps == [designator |-> Undefined, name |-> Undefined]

NoResolve ==
    [comp |-> "", threw |-> FALSE, device |-> NoDevice, byPart |-> FALSE,
     byName |-> FALSE, calls |-> <<>>, faults |-> 0]

PlaceResult(outcome, layout, resolved, fd, cs, ts, created, nfaults) ==
    [outcome |-> outcome, layout |-> layout, resolved |-> resolved, resolve |-> fd,
     calls |-> cs, toasts |-> ts, created |-> created, faults |-> nfaults]

\* placeComponent(component, x, y, libUuid, componentId) when the host answers
\* r1, r2 (lookups), rc (create), rm (modify) and rp (pin query) and the next
\* primitive id is pid.  outcome is "layout" (a ComponentLayout is returned),
\* "null", or "throw" (an exception leaves placeComponent)
placeComponent(id, component, x, y, pid, r1, r2, rc, rm, rp) ==
    IF ~component.hasProps
    THEN \* component.props.Designator throws at the first log line, and again
         \* in the catch block
         PlaceResult("throw", NoLayout, FALSE, NoResolve, <<>>, <<>>, <<>>, 0)
    ELSE
    LET fd == findDeviceInfo(id, component, r1, r2)
        uuid == fd.device.uuid
        createCall == <<Call("create", id, <<uuid, x, y>>, rc)>>
        mp == modifyProps(component)
        modifyCall == IF ModifyCalled(component)
                      THEN <<Call("modify", id, <<pid, mp.designator, mp.name>>, rm)>>
                      ELSE <<>>
        modifyFault == IF ModifyCalled(component) THEN Fault(rm) ELSE 0
        applied == IF ModifyCalled(component) /\ rm = "done" THEN mp ELSE NoProps
        inst == <<Instance(pid, uuid, x, y, applied)>>
        pinsCall == <<Call("getAllPins", id, <<pid>>, rp)>>
        pins == IF rp = "pins" THEN HostPins(uuid, x, y) ELSE <<>>
        size == calculateComponentSize(pins, x, y)
        caught == <<Toast("error", "placeException", <<>>)>>
    IN  IF fd.threw
        THEN PlaceResult("null", NoLayout, TRUE, fd, fd.calls, caught, <<>>, fd.faults)
        ELSE IF fd.device = NoDevice
        THEN PlaceResult("null", NoLayout, TRUE, fd, fd.calls,
                         <<Toast("default", "deviceNotFound", <<>>)>>, <<>>, fd.faults)
        ELSE IF rc = "throw"
        THEN PlaceResult("null", NoLayout, TRUE, fd, fd.calls \o createCall, caught,
                         <<>>, fd.faults + 1)
        ELSE IF rc = "nothing"
        THEN PlaceResult("null", NoLayout, TRUE, fd, fd.calls \o createCall,
                         <<Toast("default", "createFailed", <<>>)>>, <<>>, fd.faults + 1)
        ELSE IF rp = "throw"
        THEN PlaceResult("null", NoLayout, TRUE, fd,
                         fd.calls \o createCall \o modifyCall \o pinsCall, caught,
                         inst, fd.faults + modifyFault + 1)
        ELSE PlaceResult("layout", Layout(pid, id, x, y, size, pins), TRUE, fd,
                         fd.calls \o createCall \o modifyCall \o pinsCall, <<>>,
                         inst, fd.faults + modifyFault + Fault(rp))

----------------------------------------------------------------------------
(* createNetWiresForSingleComponent *)

\* a lookup that takes the pin at the position of the declared pin number
\* among the realized pins, whatever its number
FindPinByPosition(actualPins, pinNumber) ==
    IF IsIntegerKey(pinNumber) /\ KeyValue(pinNumber) - 1 \in DOMAIN actualPins
    THEN KeyValue(pinNumber) - 1
    ELSE 0

\* actualPins.find(pin => pin.pinNumber === pinNumber): the index of the first
\* pin with that number, 0 when there is none
FindPin(actualPins, pinNumber) ==
    IF \E i \in DOMAIN actualPins : actualPins[i].pinNumber = pinNumber
    THEN CHOOSE i \in DOMAIN actualPins :
            /\ actualPins[i].pinNumber = pinNumber
            /\ \A j \in DOMAIN actualPins :
                    actualPins[j].pinNumber = pinNumber => i <= j
    ELSE 0

\* pinX > componentCenter: a pin at the center extends to the left
RightOfCenterStrict(pinX, component) == 2 * pinX > 2 * component.x + component.width

\* pinX >= component.x + component.width / 2, without the division
RightOfCenter(pinX, component) == 2 * pinX >= 2 * component.x + component.width

\* the segment [startX, startY, endX, endY] and label of the stub for pin
Stub(component, pin, netName) ==
    [seg |-> <<pin.x, pin.y,
               IF RightOfCenter(pin.x, component)
               THEN pin.x + wireLength ELSE pin.x - wireLength,
               pin.y>>,
     label |-> toUpperCase(netName),
     comp |-> component.componentId,
     pinNumber |-> pin.pinNumber]

RECURSIVE WireLoopStopsOnFailure(_, _, _, _, _)
\* the loop with the try around the whole loop: the first wire creation that
\* throws ends it
WireLoopStopsOnFailure(component, entries, actualPins, failing, k) ==
    IF k > Len(entries) THEN [calls |-> <<>>, wires |-> <<>>, toasts |-> <<>>]
    ELSE
    LET rest == IF k \in failing
                THEN [calls |-> <<>>, wires |-> <<>>, toasts |-> <<>>]
                ELSE WireLoopStopsOnFailure(component, entries, actualPins, failing,
                                            k + 1)
        p == FindPin(actualPins, entries[k].key)
        stub == Stub(component, actualPins[p], entries[k].val)
        call == Call("createWire", component.componentId, <<stub.seg, stub.label>>,
                     IF k \in failing THEN "throw" ELSE "done")
    IN  IF p = 0
        THEN WireLoopStopsOnFailure(component, entries, actualPins, failing, k + 1)
        ELSE [calls |-> <<call>> \o rest.calls,
              wires |-> (IF k \in failing THEN <<>> ELSE <<stub>>) \o rest.wires,
              toasts |-> (IF k \in failing
                          THEN <<Toast("default", "wireFailed", <<>>)>> ELSE <<>>)
                         \o rest.toasts]

RECURSIVE WireLoop(_, _, _, _, _)
\* the loop over Object.entries(componentData.pins) from entry k on (entries
\* is the pins object, its properties in enumeration order); the
\* wire creation of the entries in failing throws.  Result: host calls,
\* wires created, toasts shown
WireLoop(component, entries, actualPins, failing, k) ==
    IF k > Len(entries) THEN [calls |-> <<>>, wires |-> <<>>, toasts |-> <<>>]
    ELSE
    LET rest == WireLoop(component, entries, actualPins, failing, k + 1)
        p == FindPin(actualPins, entries[k].key)
        stub == Stub(component, actualPins[p], entries[k].val)
        call == Call("createWire", component.componentId, <<stub.seg, stub.label>>,
                     IF k \in failing THEN "throw" ELSE "done")
    IN  IF p = 0 THEN rest
        ELSE [calls |-> <<call>> \o rest.calls,
              wires |-> (IF k \in failing THEN <<>> ELSE <<stub>>) \o rest.wires,
              toasts |-> (IF k \in failing
                          THEN <<Toast("default", "wireFailed", <<>>)>> ELSE <<>>)
                         \o rest.toasts]

\* the entries of the loop that reach the wire creation call
Matched(entries, actualPins) ==
    {k \in DOMAIN entries : FindPin(actualPins, entries[k].key) # 0}

\* createNetWiresForSingleComponent(component, netlistData) when the pin query
\* answers rp and the wire creations of the entries in failing throw
createNetWiresForSingleComponent(component, componentData, uuid, rp, failing) ==
    LET pinsCall == <<Call("getAllPins", component.componentId,
                           <<component.primitiveId>>, rp)>>
        actualPins == IF rp = "pins" THEN HostPins(uuid, component.x, component.y)
                      ELSE <<>>
        loop == WireLoop(component, componentData.pins, actualPins, failing, 1)
    IN  IF rp = "throw" \/ ~componentData.hasPins
        THEN \* the pin query throws, or Object.entries(undefined) does
             [threw |-> TRUE, calls |-> pinsCall, wires |-> <<>>, toasts |-> <<>>,
              faults |-> Fault(rp)]
        ELSE [threw |-> FALSE, calls |-> pinsCall \o loop.calls, wires |-> loop.wires,
              toasts |-> loop.toasts,
              faults |-> Fault(rp) + Cardinality(failing)]

----------------------------------------------------------------------------
(* createNetWiresForComponents *)

\* the names the empty object netGroups answers with an inherited property
\* (valueOf, toString, constructor, ...): the model holds one of them
InheritedNames == {valueOf}

\* netGroups after one more pin of netName: the group is created when
\* netGroups[netName] is falsy, and gets the connection when the pin was found
\* (conn is <<>> when it was not)
AddToGroup(groups, netName, conn) ==
    IF \E g \in DOMAIN groups : groups[g].key = netName
    THEN [g \in DOMAIN groups |->
            IF groups[g].key = netName
            THEN Entry(netName, groups[g].val \o conn) ELSE groups[g]]
    ELSE Append(groups, Entry(netName, conn))

RECURSIVE CollectPins(_, _, _, _, _)
\* the inner loop of lines 425-443 over Object.entries(componentData.pins),
\* from entry k on.  For an inherited name netGroups[netName] is a function
\* of Object.prototype: no group is created, and the push of line 434 throws
CollectPins(layout, pins, actualPins, groups, k) ==
    IF k > Len(pins) THEN [threw |-> FALSE, groups |-> groups]
    ELSE
    LET p == FindPin(actualPins, pins[k].key)
        conn == IF p = 0 THEN <<>>
                ELSE <<[component |-> layout, netName |-> pins[k].val,
                        actualPin |-> actualPins[p]]>>
    IN  IF pins[k].val \in InheritedNames
        THEN IF p = 0 THEN CollectPins(layout, pins, actualPins, groups, k + 1)
             ELSE [threw |-> TRUE, groups |-> <<>>]
        ELSE CollectPins(layout, pins, actualPins,
                         AddToGroup(groups, pins[k].val, conn), k + 1)

RECURSIVE CollectComponents(_, _, _, _, _, _)
\* the loop of lines 412-444 from layout j on: placed holds the instances of
\* the host, answers the answer of the pin query of every component.  The
\* result tells whether the loop threw
CollectComponents(targetComponents, data, placed, answers, groups, j) ==
    IF j > Len(targetComponents)
    THEN [threw |-> FALSE, calls |-> <<>>, groups |-> groups]
    ELSE
    LET layout == targetComponents[j]
        id == layout.componentId
        known == \E e \in DOMAIN data : data[e].key = id
        componentData == data[CHOOSE e \in DOMAIN data : data[e].key = id].val
        rp == answers[id]
        pinsCall == <<Call("getAllPins", id, <<layout.primitiveId>>, rp)>>
        actualPins == IF rp = "pins"
                      THEN HostPins(placed[layout.primitiveId].uuid, layout.x, layout.y)
                      ELSE <<>>
        collected == CollectPins(layout, componentData.pins, actualPins, groups, 1)
    IN  IF ~known
        THEN CollectComponents(targetComponents, data, placed, answers, groups, j + 1)
        ELSE IF rp = "throw" \/ ~componentData.hasPins \/ collected.threw
        THEN [threw |-> TRUE, calls |-> pinsCall, groups |-> <<>>]
        ELSE LET rest == CollectComponents(targetComponents, data, placed, answers,
                                           collected.groups, j + 1)
             IN  [rest EXCEPT !.calls = pinsCall \o @]

\* the connections of all groups in the order of Object.entries(netGroups),
\* each with the name of its group.  The net names of the model are not
\* integer-like, so that order is the order of insertion
RECURSIVE Connections(_)
Connections(groups) ==
    IF groups = <<>> THEN <<>>
    ELSE [c \in DOMAIN Head(groups).val |->
            [Head(groups).val[c] EXCEPT !.netName = Head(groups).key]]
         \o Connections(Tail(groups))

RECURSIVE EmitLoop(_, _, _)
\* the loop of lines 447-487 over the connections from k on; the wire
\* creations of the pairs <<component id, segment>> in failing throw
EmitLoop(conns, failing, k) ==
    IF k > Len(conns) THEN [calls |-> <<>>, wires |-> <<>>, toasts |-> <<>>]
    ELSE
    LET rest == EmitLoop(conns, failing, k + 1)
        stub == Stub(conns[k].component, conns[k].actualPin, conns[k].netName)
        fails == <<stub.comp, stub.seg>> \in failing
        call == Call("createWire", stub.comp, <<stub.seg, stub.label>>,
                     IF fails THEN "throw" ELSE "done")
    IN  [calls |-> <<call>> \o rest.calls,
         wires |-> (IF fails THEN <<>> ELSE <<stub>>) \o rest.wires,
         toasts |-> (IF fails THEN <<Toast("default", "wireFailed", <<>>)>> ELSE <<>>)
                    \o rest.toasts]

\* createNetWiresForComponents(targetComponents, netlistData) against the host
\* holding the instances placed, when the pin queries answer as answers says
\* and the wire creations of failing throw
createNetWiresForComponents(targetComponents, data, placed, answers, failing) ==
    LET collected == CollectComponents(targetComponents, data, placed, answers, <<>>, 1)
        emitted == EmitLoop(Connections(collected.groups), failing, 1)
    IN  IF collected.threw
        THEN [threw |-> TRUE, calls |-> collected.calls, wires |-> <<>>,
              toasts |-> <<>>]
        ELSE [threw |-> FALSE, calls |-> collected.calls \o emitted.calls,
              wires |-> emitted.wires, toasts |-> emitted.toasts]

\* createNetWires(components, netlistData), lines 494-499
createNetWires(targetComponents, data, placed, answers, failing) ==
    createNetWiresForComponents(targetComponents, data, placed, answers, failing)

----------------------------------------------------------------------------
(* The files the user may select *)

\* documents of n components, each ordinary or unresolvable
PlainDocs(n) ==
    {[i \in 1..n |-> Entry(IdOf(i), IF i \in lost THEN LostRec(i) ELSE StdRec(i))] :
        lost \in SUBSET (1..n)}

\* documents of n ordinary components but for one record
OddDocs(n) ==
    UNION {{[i \in 1..n |-> Entry(IdOf(i), IF i = j THEN r ELSE StdRec(i))] :
                r \in OddRecs(j)} : j \in 1..n}

\* documents whose keys are array indices, written in descending order
IndexDocs(n) ==
    {[i \in 1..n |-> Entry(IntegerKeys[n + 2 - i],
                           IF i \in lost THEN LostRec(i) ELSE StdRec(i))] :
        lost \in SUBSET (1..n)}

\* documents longer than a row: ordinary components but for at most one
\* unresolvable record, the first of a row or the last of the first row
LongDocs(n) ==
    {[i \in 1..n |-> Entry(IdOf(i), IF i = j THEN LostRec(i) ELSE StdRec(i))] :
        j \in {0, 1, maxComponentsPerRow, maxComponentsPerRow + 1}}

Docs ==
    UNION {PlainDocs(n) : n \in 0..(MaxComponents + 1)}
    \cup UNION {OddDocs(n) : n \in 1..MaxComponents}
    \cup IndexDocs(2)
    \cup UNION {LongDocs(maxComponentsPerRow + n) : n \in 1..MaxOverRow}

File(kind, doc) == [kind |-> kind, doc |-> doc]
NoFile == File("none", <<>>)

\* the decoded forms of the text of a file: no JSON at all, a JSON value that
\* is no object, an array, or an object
Files ==
    {File(k, <<>>) : k \in {"empty", "malformed", "null", "number", "string", "boolean"}}
    \cup {File("array", <<>>), File("array", <<Entry("0", StdRec(1))>>)}
    \cup {File("object", d) : d \in Docs}

\* host faults a run over n components may meet inside the component loop
FaultBudget(n) == IF n > maxComponentsPerRow THEN Min(MaxFaults, 1) ELSE MaxFaults

----------------------------------------------------------------------------
(* State machine *)

NoSummary == [total |-> -1, succeeded |-> -1, failed |-> -1]

Init ==
    /\ pc = "start"
    /\ fileContent = NoFile
    /\ netlistData = <<>>
    /\ libUuid = ""
    /\ idx = 1
    /\ currentX = StartX
    /\ currentY = StartY
    /\ componentCount = 0
    /\ components = <<>>
    /\ notFoundComponents = <<>>
    /\ layoutInfo = NoLayout
    /\ lastResolve = NoResolve
    /\ instances = <<>>
    /\ wires = <<>>
    /\ toasts = <<>>
    /\ calls = <<>>
    /\ attempts = <<>>
    /\ summary = NoSummary
    /\ faults = 0

rebuildVars == <<libUuid, idx, currentX, currentY, componentCount, components,
                 notFoundComponents, layoutInfo, lastResolve, instances, wires,
                 attempts, summary, faults>>

\* importNetlist, lines 44-47, with selectAndReadNetlistFile
SelectAndReadNetlistFile ==
    /\ pc = "start"
    /\ calls' = Append(calls, Call("openReadFileDialog", "", <<>>, ""))
    /\ \/ \* no file chosen
          /\ toasts' = Append(toasts, Toast("info", "noFile", <<>>))
          /\ pc' = "done"
          /\ UNCHANGED fileContent
       \/ \* the dialog or file.text() throws: caught in selectAndReadNetlistFile
          /\ toasts' = Append(toasts, Toast("error", "selectFailed", <<>>))
          /\ pc' = "done"
          /\ UNCHANGED fileContent
       \/ \* the FileReader fails: the rejection reaches importNetlist's catch
          /\ toasts' = Append(toasts, Toast("error", "importFailed", <<>>))
          /\ pc' = "done"
          /\ UNCHANGED fileContent
       \/ \E f \in Files :
            /\ fileContent' = f
            /\ pc' = IF f.kind = "empty" THEN "done" ELSE "read"
            /\ UNCHANGED toasts
    /\ UNCHANGED <<netlistData, rebuildVars>>

\* JSON.parse succeeds and typeof data === 'object' && data !== null
parseNetlistData(f) == f.kind \in {"object", "array"}

\* the object JSON.parse builds from a document: the properties of the
\* document and of every pins object in enumeration order
ParsedObject(doc) ==
    ObjectEntries([i \in DOMAIN doc |->
        Entry(doc[i].key, [doc[i].val EXCEPT !.pins = ObjectEntries(@)])])

\* importNetlist, lines 50-54
ParseNetlistData ==
    /\ pc = "read"
    /\ IF parseNetlistData(fileContent)
       THEN /\ netlistData' = ParsedObject(fileContent.doc)
            /\ pc' = "parsed"
            /\ UNCHANGED toasts
       ELSE /\ toasts' = Append(toasts, Toast("error", "formatError", <<>>))
            /\ pc' = "done"
            /\ UNCHANGED netlistData
    /\ UNCHANGED <<fileContent, calls, rebuildVars>>

\* importNetlist, lines 57-70 and the catch of line 74
ShowConfirmation ==
    /\ pc = "parsed"
    /\ \E answer \in {"confirm", "cancel", "throw"} :
          /\ calls' = Append(calls, Call("showConfirmationMessage", "",
                                         <<Len(netlistData)>>, answer))
          /\ pc' = IF answer = "confirm" THEN "rebuild" ELSE "done"
          /\ toasts' = IF answer = "throw"
                       THEN Append(toasts, Toast("error", "importFailed", <<>>))
                       ELSE toasts
    /\ UNCHANGED <<fileContent, netlistData, rebuildVars>>

\* rebuildSchematic without the test of lines 146-151: an empty library handle
\* goes on to the loop
GetSystemLibraryUuidUnchecked ==
    /\ pc = "rebuild"
    /\ \E answer \in {"syslib", "", "throw"} :
          /\ calls' = Append(calls, Call("getSystemLibraryUuid", "", <<>>, answer))
          /\ IF answer = "throw"
             THEN /\ toasts' = Append(toasts, Toast("error", "importFailed", <<>>))
                  /\ pc' = "done"
                  /\ UNCHANGED libUuid
             ELSE /\ libUuid' = answer
                  /\ pc' = "loop"
                  /\ UNCHANGED toasts
    /\ UNCHANGED <<fileContent, netlistData, idx, currentX, currentY, componentCount,
                   components, notFoundComponents, layoutInfo, lastResolve, instances,
                   wires, attempts, summary, faults>>

\* rebuildSchematic, lines 136-151
GetSystemLibraryUuid ==
    /\ pc = "rebuild"
    /\ \E answer \in {"syslib", "", "throw"} :
          /\ calls' = Append(calls, Call("getSystemLibraryUuid", "", <<>>, answer))
          /\ CASE answer = "throw" ->
                   \* the call throws: importNetlist's catch
                   /\ toasts' = Append(toasts, Toast("error", "importFailed", <<>>))
                   /\ pc' = "done"
                   /\ UNCHANGED libUuid
               [] answer = "" ->
                   \* !libUuid: rebuildSchematic returns, importNetlist goes on
                   /\ toasts' = Append(toasts, Toast("error", "libUnavailable", <<>>))
                   /\ pc' = "finish"
                   /\ UNCHANGED libUuid
               [] OTHER ->
                   /\ libUuid' = answer
                   /\ pc' = "loop"
                   /\ UNCHANGED toasts
    /\ UNCHANGED <<fileContent, netlistData, idx, currentX, currentY, componentCount,
                   components, notFoundComponents, layoutInfo, lastResolve, instances,
                   wires, attempts, summary, faults>>

\* the row test made before componentCount is incremented
NextSlotTestFirst(count, x, y) ==
    IF count % maxComponentsPerRow = 0
    THEN [count |-> count + 1, x |-> StartX, y |-> y + gridSize * 2]
    ELSE [count |-> count + 1, x |-> x + gridSize * 3, y |-> y]

\* rebuildSchematic, lines 171-179: the cursor after one more slot
NextSlot(count, x, y) ==
    IF (count + 1) % maxComponentsPerRow = 0
    THEN [count |-> count + 1, x |-> StartX, y |-> y + gridSize * 2]
    ELSE [count |-> count + 1, x |-> x + gridSize * 3, y |-> y]

Advance ==
    LET slot == NextSlot(componentCount, currentX, currentY)
    IN  /\ componentCount' = slot.count
        /\ currentX' = slot.x
        /\ currentY' = slot.y

\* Object.entries(netlistData)
entries == netlistData

\* the answers of the host calls that placeComponent makes for component:
\* "none" stands for a call that is not made
PlaceAnswers(component) ==
    LET byPart == component.hasProps /\ Truthy(component.SupplierPart)
        hit1(r1) == byPart /\ NonEmptyList(r1, LcscLibrary(component.SupplierPart))
        byName(r1) == component.hasProps /\ r1 # "throw" /\ ~hit1(r1)
                        /\ Truthy(component.device_name)
        hit2(r1, r2) == byName(r1) /\ NonEmptyList(r2, SearchLibrary(component.device_name))
        made(r1, r2) == hit1(r1) \/ hit2(r1, r2)
    IN  UNION {UNION {UNION {
            {<<r1, r2, rc, rm, rp>> :
                rm \in IF rc = "primitive" /\ ModifyCalled(component)
                       THEN ModifyAnswers ELSE {"none"},
                rp \in IF rc = "primitive" THEN PinsAnswers ELSE {"none"}} :
            rc \in IF made(r1, r2) THEN CreateAnswers ELSE {"none"}} :
            r2 \in IF byName(r1) THEN LookupAnswers ELSE {"none"}} :
            r1 \in IF byPart THEN LookupAnswers ELSE {"none"}}

\* rebuildSchematic, one pass of the loop up to the placement: lines 155-160,
\* or 164-179 when nothing was placed, or the catch of 180-187
PlaceComponent ==
    /\ pc = "loop"
    /\ idx <= Len(entries)
    /\ \E a \in {b \in PlaceAnswers(entries[idx].val) :
                    faults + Fault(b[1]) + Fault(b[2]) + Fault(b[3]) + Fault(b[4])
                        + Fault(b[5]) <= FaultBudget(Len(entries))} :
        LET id == entries[idx].key
            component == entries[idx].val
            res == placeComponent(id, component, currentX, currentY,
                                  Len(instances) + 1, a[1], a[2], a[3], a[4], a[5])
        IN  /\ faults + res.faults <= FaultBudget(Len(entries))
            /\ faults' = faults + res.faults
            /\ attempts' = Append(attempts, <<id, currentX, currentY>>)
            /\ calls' = calls \o res.calls
            /\ instances' = instances \o res.created
            /\ lastResolve' = IF res.resolved THEN res.resolve ELSE lastResolve
            /\ layoutInfo' = res.layout
            /\ CASE res.outcome = "layout" ->
                    /\ components' = Append(components, res.layout)
                    /\ toasts' = toasts \o res.toasts
                    /\ pc' = "wires"
                    /\ UNCHANGED <<notFoundComponents, idx, currentX, currentY,
                                   componentCount>>
                 [] res.outcome = "null" ->
                    /\ notFoundComponents' =
                            Append(notFoundComponents, component.Designator)
                    /\ toasts' = toasts \o res.toasts
                    /\ Advance
                    /\ idx' = idx + 1
                    /\ pc' = "loop"
                    /\ UNCHANGED components
                 [] OTHER ->
                    \* component.props is undefined: the catch of line 180 throws
                    \* in its turn, and importNetlist's catch reports it
                    /\ toasts' = Append(toasts, Toast("error", "importFailed", <<>>))
                    /\ pc' = "done"
                    /\ UNCHANGED <<components, notFoundComponents, idx, currentX,
                                   currentY, componentCount>>
    /\ UNCHANGED <<fileContent, netlistData, libUuid, wires, summary>>

\* rebuildSchematic, the rest of the pass for a placed component: line 163,
\* then lines 170-179, or the catch of 180-187
CreateNetWires ==
    /\ pc = "wires"
    /\ LET component == entries[idx].val
           uuid == instances[layoutInfo.primitiveId].uuid
           matched == Matched(component.pins,
                              HostPins(uuid, layoutInfo.x, layoutInfo.y))
       IN  \E rp \in PinsAnswers :
           \E failing \in {f \in SUBSET (IF rp = "pins" /\ component.hasPins
                                          THEN matched ELSE {}) :
                            faults + Fault(rp) + Cardinality(f)
                                <= FaultBudget(Len(entries))} :
            LET res == createNetWiresForSingleComponent(layoutInfo, component, uuid,
                                                        rp, failing)
            IN  /\ faults + res.faults <= FaultBudget(Len(entries))
                /\ faults' = faults + res.faults
                /\ calls' = calls \o res.calls
                /\ wires' = wires \o res.wires
                /\ IF res.threw
                   THEN /\ toasts' = Append(toasts \o res.toasts,
                                            Toast("error", "loopException", <<>>))
                        /\ notFoundComponents' =
                                Append(notFoundComponents, component.Designator)
                        /\ UNCHANGED <<currentX, currentY, componentCount>>
                   ELSE /\ toasts' = toasts \o res.toasts
                        /\ Advance
                        /\ UNCHANGED notFoundComponents
                /\ idx' = idx + 1
                /\ pc' = "loop"
    /\ UNCHANGED <<fileContent, netlistData, libUuid, components, layoutInfo,
                   lastResolve, instances, attempts, summary>>

\* rebuildSchematic, lines 190-205
Summary ==
    /\ pc = "loop"
    /\ idx > Len(entries)
    /\ toasts' = Append(toasts,
                        IF Len(notFoundComponents) > 0
                        THEN Toast("warning", "rebuildSummary", notFoundComponents)
                        ELSE Toast("success", "rebuildSummary", <<>>))
    /\ summary' = [total |-> Len(entries), succeeded |-> Len(components),
                   failed |-> Len(notFoundComponents)]
    /\ pc' = "finish"
    /\ UNCHANGED <<fileContent, netlistData, calls, libUuid, idx, currentX, currentY,
                   componentCount, components, notFoundComponents, layoutInfo,
                   lastResolve, instances, wires, attempts, faults>>

\* importNetlist, line 72: rebuildSchematic has returned
ImportDone ==
    /\ pc = "finish"
    /\ toasts' = Append(toasts, Toast("success", "importDone", <<>>))
    /\ pc' = "done"
    /\ UNCHANGED <<fileContent, netlistData, calls, rebuildVars>>

Next ==
    \/ SelectAndReadNetlistFile
    \/ ParseNetlistData
    \/ ShowConfirmation
    \/ GetSystemLibraryUuid
    \/ PlaceComponent
    \/ CreateNetWires
    \/ Summary
    \/ ImportDone

Spec == Init /\ [][Next]_vars

----------------------------------------------------------------------------
(* Properties *)

\* the entry of the netlist with key id
EntryOf(id) == entries[CHOOSE i \in DOMAIN entries : entries[i].key = id]

\* the layout of the placed component id
LayoutOf(id) == components[CHOOSE j \in DOMAIN components : components[j].componentId = id]

CallsOf(op, id) == {i \in DOMAIN calls : calls[i].op = op /\ calls[i].comp = id}

\* the pins the host holds for the placed component c
RealizedPins(c) == HostPins(instances[c.primitiveId].uuid, c.x, c.y)

\* the library holds a device for the record, by supplier part or by name
Resolvable(rec) ==
    \/ Truthy(rec.SupplierPart) /\ LcscLibrary(rec.SupplierPart) # <<>>
    \/ Truthy(rec.device_name) /\ SearchLibrary(rec.device_name) # <<>>

\* every record of the netlist has its props and its pins
WellFormed == \A i \in DOMAIN entries : entries[i].val.hasProps /\ entries[i].val.hasPins

RECURSIVE DesignatorsOfLost(_)
\* the designators of the unresolvable records of es, in order
DesignatorsOfLost(es) ==
    IF es = <<>> THEN <<>>
    ELSE (IF Resolvable(Head(es).val) THEN <<>> ELSE <<Head(es).val.Designator>>)
            \o DesignatorsOfLost(Tail(es))

\* C1: the k-th call of placeComponent (k zero-based) is made at
\* (20 + 300 * (k mod 15), 20 + 200 * (k div 15)), whatever happened to the
\* components before it.
C1_AttemptPositions ==
    \A k \in DOMAIN attempts :
        /\ attempts[k][2] = 20 + 300 * ((k - 1) % 15)
        /\ attempts[k][3] = 20 + 200 * ((k - 1) \div 15)

\* C2: once the library handle is obtained, a run that has ended has attempted
\* every component of the document and produced the final summary, whatever
\* the host answered and whatever fields the records lack.
C2_RunReachesSummary ==
    (pc = "done" /\ libUuid # "") =>
        /\ Len(attempts) = Len(entries)
        /\ summary # NoSummary

\* C3: when the only failures are records the library does not resolve, the
\* summary counts total = n and succeeded = n - |F|, the failed list is the
\* designators of F in the order of the netlist, and every other component is
\* instantiated once, at the grid position of its index.
C3_PartialFailureIsolation ==
    (summary # NoSummary /\ faults = 0 /\ WellFormed) =>
        LET F == {i \in DOMAIN entries : ~Resolvable(entries[i].val)}
        IN  /\ summary.total = Len(entries)
            /\ summary.succeeded = Len(entries) - Cardinality(F)
            /\ summary.failed = Cardinality(F)
            /\ notFoundComponents = DesignatorsOfLost(entries)
            /\ \A i \in DOMAIN entries :
                    LET made == CallsOf("create", entries[i].key)
                    IN  IF i \in F THEN made = {}
                        ELSE /\ Cardinality(made) = 1
                             /\ \A c \in made :
                                    /\ calls[c].args[2] = 20 + 300 * ((i - 1) % 15)
                                    /\ calls[c].args[3] = 20 + 200 * ((i - 1) \div 15)
                             /\ \E j \in DOMAIN components :
                                    /\ components[j].componentId = entries[i].key
                                    /\ components[j].x = 20 + 300 * ((i - 1) % 15)
                                    /\ components[j].y = 20 + 200 * ((i - 1) \div 15)

\* a run over three components whose second is not resolved has ended
C3_Witness ==
    /\ summary # NoSummary /\ faults = 0 /\ WellFormed
    /\ Len(entries) = 3
    /\ {i \in DOMAIN entries : ~Resolvable(entries[i].val)} = {2}
    /\ Len(components) = 2

\* C4: every entry of the failed list is the designator of a component, or
\* its component id when the designator is empty or absent; no entry is empty
\* or undefined.
C4_FailedEntryNamed ==
    \A i \in DOMAIN notFoundComponents :
        /\ Truthy(notFoundComponents[i])
        /\ \E e \in Range(entries) :
                notFoundComponents[i] =
                    IF Truthy(e.val.Designator) THEN e.val.Designator ELSE e.key

\* C5: when the supplier part of the record is non-empty and the supplier
\* lookup answers with a non-empty list, findDeviceInfo returns the first
\* element of that list and the name search is not called for the record.
C5_SupplierPartWins ==
    LET r == lastResolve
        rec == EntryOf(r.comp).val
    IN  (/\ r.comp # ""
         /\ Truthy(rec.SupplierPart)
         /\ \E c \in CallsOf("getByLcscIds", r.comp) :
                calls[c].answer = "list" /\ LcscLibrary(calls[c].args[1]) # <<>>)
        => /\ ~r.threw
           /\ r.device = LcscLibrary(rec.SupplierPart)[1]
           /\ CallsOf("search", r.comp) = {}

\* a record with a known supplier part and a name the search would resolve
\* to another device has been resolved by its supplier part
C5_Witness ==
    /\ lastResolve.comp # ""
    /\ EntryOf(lastResolve.comp).val.SupplierPart = "C2"
    /\ EntryOf(lastResolve.comp).val.device_name = "res"
    /\ lastResolve.device = D2
    /\ SearchLibrary("res")[1] # D2

\* C6: when the supplier part is empty or its lookup yields no non-empty
\* list, and device_name is non-empty, the name search is called and its first
\* element is returned when it answers a non-empty list; findDeviceInfo
\* returns nothing exactly when neither stage yields a non-empty list, and
\* makes no lookup at all when both fields are empty.
C6_NameSearchFallback ==
    LET r == lastResolve
        rec == EntryOf(r.comp).val
        yield1 == \E c \in CallsOf("getByLcscIds", r.comp) :
                    calls[c].answer = "list" /\ LcscLibrary(calls[c].args[1]) # <<>>
        miss1 == \/ ~Truthy(rec.SupplierPart)
                 \/ \E c \in CallsOf("getByLcscIds", r.comp) :
                        \/ calls[c].answer = "nothing"
                        \/ calls[c].answer = "list" /\ LcscLibrary(calls[c].args[1]) = <<>>
        yield2 == \E c \in CallsOf("search", r.comp) :
                    calls[c].answer = "list" /\ SearchLibrary(calls[c].args[1]) # <<>>
    IN  r.comp # "" =>
        /\ (miss1 /\ Truthy(rec.device_name)) =>
                /\ Cardinality(CallsOf("search", r.comp)) = 1
                /\ \A c \in CallsOf("search", r.comp) :
                        calls[c].args[1] = rec.device_name
                /\ yield2 => r.device = SearchLibrary(rec.device_name)[1]
        /\ ~r.threw => (r.device = NoDevice <=> ~yield1 /\ ~yield2)
        /\ (~Truthy(rec.SupplierPart) /\ ~Truthy(rec.device_name)) =>
                /\ CallsOf("getByLcscIds", r.comp) = {}
                /\ CallsOf("search", r.comp) = {}
                /\ r.device = NoDevice

\* a record whose supplier part the library does not know has been resolved
\* by the name search
C6_Witness ==
    /\ lastResolve.comp # ""
    /\ EntryOf(lastResolve.comp).val.SupplierPart = "C9"
    /\ CallsOf("getByLcscIds", lastResolve.comp) # {}
    /\ CallsOf("search", lastResolve.comp) # {}
    /\ lastResolve.device = SearchLibrary("res")[1]

\* C7: every stub a run has created starts at the position of a realized pin
\* of its component and is horizontal; it ends 30 to the right when the pin's
\* x is at or beyond x + width / 2 of the component, and 30 to the left
\* otherwise.
C7_StubGeometry ==
    pc = "done" =>
    \A i \in DOMAIN wires :
        LET w == wires[i]
            C == LayoutOf(w.comp)
            px == w.seg[1]
            py == w.seg[2]
        IN  /\ \E p \in Range(RealizedPins(C)) :
                    p.pinNumber = w.pinNumber /\ p.x = px /\ p.y = py
            /\ w.seg[4] = py
            /\ w.seg[3] = IF 2 * px >= 2 * C.x + C.width THEN px + 30 ELSE px - 30
            /\ \E c \in CallsOf("createWire", w.comp) :
                    calls[c].args[1] = w.seg /\ calls[c].answer = "done"

\* a stub has been created for a pin exactly at the center of a component
\* that is wider than a point
C7_Witness ==
    /\ pc = "done"
    /\ \E i \in DOMAIN wires :
        LET C == LayoutOf(wires[i].comp)
        IN  /\ C.width > 0
            /\ 2 * wires[i].seg[1] = 2 * C.x + C.width
            /\ wires[i].seg[3] = wires[i].seg[1] + 30

\* the net name the netlist declares for the pin of stub w
DeclaredNet(w) ==
    LET pins == EntryOf(w.comp).val.pins
    IN  (CHOOSE e \in Range(pins) : e.key = w.pinNumber).val

LowerChar(c) ==
    CASE c = "V" -> "v"
      [] c = "C" -> "c"
      [] c = "G" -> "g"
      [] c = "N" -> "n"
      [] c = "D" -> "d"
      [] c = "A" -> "a"
      [] c = "L" -> "l"
      [] c = "U" -> "u"
      [] c = "E" -> "e"
      [] c = "F" -> "f"
      [] c = "O" -> "o"
      [] OTHER -> c

SameIgnoringCase(a, b) ==
    /\ Len(a) = Len(b)
    /\ \A i \in DOMAIN a : LowerChar(a[i]) = LowerChar(b[i])

\* C8: the label of every stub a run has created is its declared net name in
\* upper case, so the stubs of two pins whose net names differ only in letter
\* case carry the same label.
C8_LabelUppercase ==
    pc = "done" =>
    \A i \in DOMAIN wires :
        /\ SameIgnoringCase(wires[i].label, DeclaredNet(wires[i]))
        /\ \A k \in DOMAIN wires[i].label :
                wires[i].label[k] \notin {"v", "c", "g", "n", "d", "a", "l", "u", "e", "f"}
        /\ \A j \in DOMAIN wires :
                wires[i].label # wires[j].label
                    => ~SameIgnoringCase(DeclaredNet(wires[i]), DeclaredNet(wires[j]))

\* two components have stubs whose declared net names differ in case only
C8_Witness ==
    /\ pc = "done"
    /\ \E i \in DOMAIN wires, j \in DOMAIN wires :
        /\ wires[i].comp # wires[j].comp
        /\ DeclaredNet(wires[i]) # DeclaredNet(wires[j])
        /\ SameIgnoringCase(DeclaredNet(wires[i]), DeclaredNet(wires[j]))
        /\ wires[i].label = wires[j].label

\* the wire synthesis of the placed component id has run: it got the pins
\* from the host and none of its wire creations failed
WiredCleanly(id) ==
    /\ \E c \in CallsOf("getAllPins", id) :
            /\ calls[c].answer = "pins"
            /\ \E b \in CallsOf("getAllPins", id) : b < c
    /\ \A c \in CallsOf("createWire", id) : calls[c].answer = "done"

\* the declared pins of rec whose number is the number of a realized pin
MatchingPairs(rec, pins) ==
    {k \in DOMAIN rec.pins : \E p \in Range(pins) : p.pinNumber = rec.pins[k].key}

\* C9: at the end of a run, a placed component whose wire creations all
\* succeeded has one stub per declared pin whose number equals that of a
\* realized pin, none for the others, and is not in the failed list; a netlist
\* of one component with two matching pins ends with one component placed at
\* (20, 20) and two stubs.
C9_OneStubPerMatchingPin ==
    pc = "done" =>
    /\ \A j \in DOMAIN components :
            LET C == components[j]
                rec == EntryOf(C.componentId).val
            IN  (rec.hasPins /\ WiredCleanly(C.componentId)) =>
                    /\ Cardinality({i \in DOMAIN wires : wires[i].comp = C.componentId})
                         = Cardinality(MatchingPairs(rec, RealizedPins(C)))
                    /\ \A k \in MatchingPairs(rec, RealizedPins(C)) :
                            \E i \in DOMAIN wires :
                                /\ wires[i].comp = C.componentId
                                /\ wires[i].pinNumber = rec.pins[k].key
                    /\ rec.Designator \notin Range(notFoundComponents)
    /\ (/\ summary # NoSummary /\ faults = 0 /\ WellFormed
        /\ Len(entries) = 1
        /\ Resolvable(entries[1].val)
        /\ Len(entries[1].val.pins) = 2
        /\ \A c \in Range(components) :
                Cardinality(MatchingPairs(entries[1].val, RealizedPins(c))) = 2)
        => /\ Len(components) = 1
           /\ components[1].x = 20 /\ components[1].y = 20
           /\ Len(wires) = 2

\* a placed component with one declared pin that matches a realized pin and
\* one that does not has been wired
C9_Witness ==
    /\ pc = "done"
    /\ \E j \in DOMAIN components :
        LET C == components[j]
            rec == EntryOf(C.componentId).val
        IN  /\ rec.hasPins /\ WiredCleanly(C.componentId)
            /\ Cardinality(MatchingPairs(rec, RealizedPins(C))) = 1
            /\ Len(rec.pins) = 2
            /\ Cardinality({i \in DOMAIN wires : wires[i].comp = C.componentId}) = 1

HasToast(what) == \E i \in DOMAIN toasts : toasts[i].what = what

\* C10: a run that got past file selection ends with one final notification
\* that classifies it: success when every component was placed, a warning
\* naming the failed designators when some failed, an error when the input
\* did not parse or the library handle was unavailable; no success
\* notification is shown when the handle was unavailable or a component failed.
C10_FinalNotification ==
    (pc = "done" /\ Len(toasts) > 0) =>
        LET last == toasts[Len(toasts)]
        IN  /\ (HasToast("libUnavailable") \/ Len(notFoundComponents) > 0) =>
                    \A i \in DOMAIN toasts : toasts[i].sev # "success"
            /\ (HasToast("formatError") \/ HasToast("libUnavailable")) =>
                    last.sev = "error"
            /\ (summary # NoSummary /\ summary.failed > 0) =>
                    last.sev = "warning" /\ last.names = notFoundComponents
            /\ (summary # NoSummary /\ summary.failed = 0) => last.sev = "success"

\* the slot that follows the slot at (x, y) on the grid
SlotAfter(x, y) ==
    IF x = StartX + gridSize * 3 * (maxComponentsPerRow - 1)
    THEN <<StartX, y + gridSize * 2>>
    ELSE <<x + gridSize * 3, y>>

\* C11: when the wire creation of one pin of a placed component fails, the
\* failure is reported, a wire creation is still attempted for every other
\* declared pin that matches a realized pin, the component stays placed and
\* out of the failed list, and the next component of the netlist is attempted
\* at the next slot of the grid.
C11_WireFailureIsolated ==
    pc = "done" =>
    \A k \in DOMAIN attempts :
        LET id == attempts[k][1]
            rec == EntryOf(id).val
            thrown == {c \in CallsOf("createWire", id) : calls[c].answer = "throw"}
        IN  thrown # {} =>
            /\ \E j \in DOMAIN components :
                    /\ components[j].componentId = id
                    /\ Cardinality(CallsOf("createWire", id))
                         = Cardinality(MatchingPairs(rec, RealizedPins(components[j])))
                    /\ \A m \in MatchingPairs(rec, RealizedPins(components[j])) :
                            \E c \in CallsOf("createWire", id) :
                                calls[c].args[2] = toUpperCase(rec.pins[m].val)
            /\ rec.Designator \notin Range(notFoundComponents)
            /\ Cardinality({t \in DOMAIN toasts : toasts[t].what = "wireFailed"})
                 >= Cardinality(thrown)
            /\ k < Len(entries) =>
                    /\ Len(attempts) > k
                    /\ attempts[k + 1][1] = entries[k + 1].key
                    /\ <<attempts[k + 1][2], attempts[k + 1][3]>>
                         = SlotAfter(attempts[k][2], attempts[k][3])

\* the first wire creation of a component failed, its second one succeeded,
\* and the component after it was attempted
C11_Witness ==
    /\ pc = "done"
    /\ \E k \in DOMAIN attempts :
        /\ k < Len(attempts)
        /\ \E c, d \in CallsOf("createWire", attempts[k][1]) :
                /\ c < d
                /\ calls[c].answer = "throw"
                /\ calls[d].answer = "done"

\* a and b hold the same keys with the same values, the pins of every record
\* compared the same way
SameMapping(a, b) ==
    LET plain(e) == [key |-> e.key, val |-> [e.val EXCEPT !.pins = Range(@)]]
    IN  {plain(a[i]) : i \in DOMAIN a} = {plain(b[i]) : i \in DOMAIN b}

\* C12: parsing fails, with the format-error notification and before any
\* confirmation prompt, exactly when the text is not well-formed JSON or
\* decodes to null, a number, a string, a boolean or an array; the text of a
\* mapping is parsed to that mapping, unchanged.
C12_ParseFailsOffMappings ==
    (fileContent # NoFile /\ fileContent.kind # "empty" /\ pc # "read") =>
        IF fileContent.kind \in {"malformed", "null", "number", "string", "boolean",
                                 "array"}
        THEN /\ pc = "done"
             /\ HasToast("formatError")
             /\ \A c \in DOMAIN calls : calls[c].op # "showConfirmationMessage"
        ELSE /\ ~HasToast("formatError")
             /\ SameMapping(netlistData, fileContent.doc)

\* the host calls that change the schematic, and the device lookups
GatedOps == {"create", "modify", "createWire", "getByLcscIds", "search"}

\* C13: a device lookup, an instantiation, a property modification or a wire
\* creation is made only after the file was read, its text parsed, the
\* confirmation prompt answered with a confirmation and a non-empty library
\* handle obtained, in that order; a run where the user declined or no
\* handle was obtained ends with the schematic unchanged.
C13_MutationsAreGated ==
    pc = "done" =>
    LET gated == {i \in DOMAIN calls : calls[i].op \in GatedOps}
        reads == {i \in DOMAIN calls : calls[i].op = "openReadFileDialog"}
        confirmed == {i \in DOMAIN calls : /\ calls[i].op = "showConfirmationMessage"
                                          /\ calls[i].answer = "confirm"}
        handles == {i \in DOMAIN calls : /\ calls[i].op = "getSystemLibraryUuid"
                                        /\ calls[i].answer \notin {"", "throw"}}
    IN  /\ \A i \in gated :
            /\ fileContent # NoFile /\ fileContent.kind # "empty"
            /\ ~HasToast("formatError")
            /\ \E h \in handles : /\ h < i
                                  /\ \E c \in confirmed : /\ c < h
                                                          /\ \E r \in reads : r < c
        /\ (confirmed = {} \/ handles = {}) =>
                gated = {} /\ instances = <<>> /\ wires = <<>>

\* a run that passed the four gates, instantiated a device and created a wire
C13_Witness ==
    /\ pc = "done"
    /\ \E i \in DOMAIN calls : calls[i].op = "create" /\ calls[i].answer = "primitive"
    /\ \E i \in DOMAIN calls : calls[i].op = "createWire" /\ calls[i].answer = "done"

\* C14: when the summary is produced, the succeeded count plus the number of
\* entries of the failed list is the total, and no component is both in the
\* placed list and in the failed list, whatever failed during the run.
C14_AccountingConsistency ==
    summary # NoSummary =>
        /\ summary.succeeded + summary.failed = summary.total
        /\ summary.succeeded = Len(components)
        /\ summary.failed = Len(notFoundComponents)
        /\ \A j \in DOMAIN components :
                EntryOf(components[j].componentId).val.Designator
                    \notin Range(notFoundComponents)

\* s is absent, empty or made of white space only
Blank(s) == s \in {Undefined, "", "  "}

\* C15: a created device gets one modify call, made before its pins are
\* fetched, carrying the designator when the record's designator is not blank
\* and, as name, the record's value when that is not blank; it gets none when
\* both are blank; a modify call that throws is followed by the pin query,
\* and the component is placed unless that query throws.
C15_ModifyIsBestEffort ==
    pc = "done" =>
    \A k \in DOMAIN attempts :
        LET id == attempts[k][1]
            rec == EntryOf(id).val
            created == {c \in CallsOf("create", id) : calls[c].answer = "primitive"}
            mods == CallsOf("modify", id)
        IN  /\ created = {} => mods = {}
            /\ created # {} =>
                IF Blank(rec.Designator) /\ Blank(rec.value) THEN mods = {}
                ELSE /\ Cardinality(mods) = 1
                     /\ \A m \in mods :
                        /\ m - 1 \in created
                        /\ calls[m].args[2] = IF Blank(rec.Designator) THEN Undefined
                                              ELSE rec.Designator
                        /\ calls[m].args[3] = IF Blank(rec.value) THEN Undefined
                                              ELSE rec.value
            /\ \A m \in mods :
                    /\ m < Len(calls)
                    /\ calls[m + 1].op = "getAllPins" /\ calls[m + 1].comp = id
                    /\ calls[m + 1].answer # "throw" =>
                            \E j \in DOMAIN components :
                                /\ components[j].componentId = id
                                /\ instances[components[j].primitiveId].designator
                                     = IF calls[m].answer = "throw" THEN Undefined
                                       ELSE calls[m].args[2]

\* a modify call without designator has thrown and its component is placed
C15_Witness ==
    /\ pc = "done"
    /\ \E m \in DOMAIN calls :
        /\ calls[m].op = "modify"
        /\ calls[m].answer = "throw"
        /\ calls[m].args[2] = Undefined
        /\ calls[m].args[3] # Undefined
        /\ \E j \in DOMAIN components : components[j].componentId = calls[m].comp

\* the rank of a host call within the processing of one component
OpRank(op) ==
    CASE op \in {"getByLcscIds", "search"} -> 1
      [] op \in {"create", "modify"} -> 2
      [] op = "getAllPins" -> 3
      [] OTHER -> 4

\* C16: once the library handle is obtained, the components are processed one
\* after another in the order of the document, each exactly once; every host
\* call for a component is made before any call for the next one, and the
\* calls for one component are lookups, then the instantiation, then the pin
\* queries, then the wire creations.
C16_SequentialDocumentOrder ==
    (pc = "done" /\ libUuid # "") =>
        /\ Len(attempts) = Len(fileContent.doc)
        /\ \A k \in DOMAIN attempts : attempts[k][1] = fileContent.doc[k].key
        /\ \A i, j \in DOMAIN calls :
                (i < j /\ calls[i].comp # "" /\ calls[j].comp # "") =>
                    \E a, b \in DOMAIN attempts :
                        /\ a <= b
                        /\ attempts[a][1] = calls[i].comp
                        /\ attempts[b][1] = calls[j].comp
                        /\ a = b => OpRank(calls[i].op) <= OpRank(calls[j].op)

\* the answer of the pin query that the wire synthesis of the run made for
\* every placed component: its last pin query
PinAnswersOfRun ==
    [id \in {components[j].componentId : j \in DOMAIN components} |->
        LET qs == CallsOf("getAllPins", id)
        IN  calls[CHOOSE q \in qs : \A r \in qs : r <= q].answer]

\* the wire creations that threw in the run
FailedCreations ==
    {<<calls[c].comp, calls[c].args[1]>> :
        c \in {d \in DOMAIN calls : calls[d].op = "createWire" /\ calls[d].answer = "throw"}}

\* createNetWiresForComponents on the placed components of the run, the host
\* answering as it did in the run
Grouped ==
    createNetWiresForComponents(components, netlistData, instances,
                                PinAnswersOfRun, FailedCreations)

\* segment and label of every stub of ws
SegmentsAndLabels(ws) == [i \in DOMAIN ws |-> [seg |-> ws[i].seg, label |-> ws[i].label]]

\* a and b hold the same elements the same number of times
SameBag(a, b) ==
    \A s \in Range(a) \cup Range(b) :
        Cardinality({i \in DOMAIN a : a[i] = s}) = Cardinality({i \in DOMAIN b : b[i] = s})

\* C17: for the placed components and the netlist of any run, the
\* grouped synthesis creates the same stubs (segment and label, counted with
\* multiplicity) as the per-component synthesis of the run created.
C17_GroupedEqualsPerComponent ==
    pc = "done" =>
        SameBag(SegmentsAndLabels(Grouped.wires), SegmentsAndLabels(wires))

\* the largest and the smallest element of a set of integers
Largest(S) == CHOOSE m \in S : \A n \in S : n <= m
Smallest(S) == CHOOSE m \in S : \A n \in S : m <= n

\* C18: the width of a placed component is the largest minus the smallest of
\* its placement x and the x of its pins, its height likewise for y; both
\* are at least 0, and both are 0 when the host returned no pin, so that
\* the center used for the direction of its wires is its placement x.
C18_SizeIsPinExtent ==
    pc = "done" =>
    \A j \in DOMAIN components :
        LET C == components[j]
            first == calls[CHOOSE q \in CallsOf("getAllPins", C.componentId) :
                        \A r \in CallsOf("getAllPins", C.componentId) : q <= r]
            xs == {C.x} \cup {p.x : p \in Range(C.pins)}
            ys == {C.y} \cup {p.y : p \in Range(C.pins)}
        IN  /\ C.pins = IF first.answer = "pins" THEN RealizedPins(C) ELSE <<>>
            /\ C.width = Largest(xs) - Smallest(xs)
            /\ C.height = Largest(ys) - Smallest(ys)
            /\ C.width >= 0 /\ C.height >= 0
            /\ C.pins = <<>> =>
                    /\ C.width = 0 /\ C.height = 0
                    /\ \A px \in C.x - 1 .. C.x + 1 : RightOfCenter(px, C) <=> px >= C.x

\* a component placed without pins, and one whose pins all lie to the right
\* of and below its placement point
C18_Witness ==
    /\ pc = "done"
    /\ \E j \in DOMAIN components : components[j].pins = <<>>
    /\ \E j \in DOMAIN components :
            /\ components[j].pins # <<>>
            /\ \A p \in Range(components[j].pins) :
                    p.x > components[j].x /\ p.y > components[j].y
            /\ components[j].width > 0

====
